---- MODULE Spec2Model ----
(***************************************************************************)
(* TrTReal: the tree-text parser (src/parser.py), its token constants      *)
(* (src/const.py) and the directory-to-text renderer (src/utils.py).       *)
(*                                                                         *)
(* A character is its Unicode codepoint (a natural number), a string is a  *)
(* sequence of characters.  str.strip, str.split, str.startswith,         *)
(* str.rstrip and str.lower are computed on these sequences as Python      *)
(* computes them.                                                          *)
(***************************************************************************)
EXTENDS Integers, Sequences, FiniteSets, TLC

(***************************************************************************)
(* Bounds of the model.                                                    *)
(***************************************************************************)
\* number of lines of a generated input text
MaxLines == 3
\* number of 4-space indentation tokens in front of a generated line
MaxIndent == 1
\* number of entries below the root of a generated directory
MaxEntries == 3
\* nesting depth of the entries of a generated directory
MaxFsDepth == 2
\* number of further calls of parse on a parser object that has parsed once
MaxReuse == 1
\* length of the list handed to create_file_structure
MaxPaths == 2

(***************************************************************************)
(* Characters.                                                             *)
(***************************************************************************)
NL == 10
TAB == 9
SP == 32
SLASH == 47

\* the characters str.strip() and str.isspace() treat as whitespace
WhitespaceChars ==
    {9, 10, 11, 12, 13, 28, 29, 30, 31, 32, 133, 160, 5760, 8232, 8233,
     8239, 8287, 12288} \cup (8192..8202)

IsSpace(c) == c \in WhitespaceChars

\* str.lower() on one character (ASCII letters; the others used here have no case)
LowerChar(c) == IF c >= 65 /\ c <= 90 THEN c + 32 ELSE c

Lower(s) == [i \in 1..Len(s) |-> LowerChar(s[i])]

(***************************************************************************)
(* src/const.py: the four tokens, codepoint by codepoint as the file holds *)
(* them.                                                                   *)
(***************************************************************************)
TREE_BRANCH == <<8218, 238, 250, 8218, 238, 196, 8218, 238, 196, 32>>
TREE_LAST == <<8218, 238, 238, 8218, 238, 196, 8218, 238, 196, 32>>
TREE_VERTICAL == <<8218, 238, 199, 32, 32, 32>>
TREE_SPACE == <<32, 32, 32, 32>>

(***************************************************************************)
(* src/utils.py: the literals the renderer writes (box-drawing characters  *)
(* U+251C, U+2514, U+2502, U+2500).                                        *)
(***************************************************************************)
ConnectorBranch == <<9500, 9472, 9472, 32>>
ConnectorLast == <<9492, 9472, 9472, 32>>
ExtensionVertical == <<9474, 32, 32, 32>>
ExtensionSpace == <<32, 32, 32, 32>>

(***************************************************************************)
(* String helpers.                                                         *)
(***************************************************************************)
Min(a, b) == IF a < b THEN a ELSE b

\* s[pos:] with a 0-based pos
From(s, pos) == SubSeq(s, pos + 1, Len(s))

\* s[pos:].startswith(tok)
StartsWithAt(s, pos, tok) ==
    /\ pos + Len(tok) <= Len(s)
    /\ \A i \in 1..Len(tok) : s[pos + i] = tok[i]

RECURSIVE LStrip(_)
LStrip(s) ==
    IF s = <<>> THEN <<>>
    ELSE IF IsSpace(Head(s)) THEN LStrip(Tail(s)) ELSE s

RECURSIVE RStrip(_)
RStrip(s) ==
    IF s = <<>> THEN <<>>
    ELSE IF IsSpace(s[Len(s)]) THEN RStrip(SubSeq(s, 1, Len(s) - 1)) ELSE s

\* str.strip()
Strip(s) == RStrip(LStrip(s))

\* str.rstrip('/'): every trailing '/' goes
RECURSIVE RStripSlash(_)
RStripSlash(s) ==
    IF s = <<>> THEN <<>>
    ELSE IF s[Len(s)] = SLASH THEN RStripSlash(SubSeq(s, 1, Len(s) - 1)) ELSE s

\* str.endswith('/')
EndsWithSlash(s) == s # <<>> /\ s[Len(s)] = SLASH

\* str.split('\n'): always at least one element
RECURSIVE SplitAcc(_, _, _)
SplitAcc(s, cur, acc) ==
    IF s = <<>> THEN Append(acc, cur)
    ELSE IF Head(s) = NL THEN SplitAcc(Tail(s), <<>>, Append(acc, cur))
    ELSE SplitAcc(Tail(s), Append(cur, Head(s)), acc)

Split(s) == SplitAcc(s, <<>>, <<>>)

\* sep.join(parts)
RECURSIVE Join(_, _)
Join(parts, sep) ==
    IF parts = <<>> THEN <<>>
    ELSE IF Len(parts) = 1 THEN parts[1]
    ELSE parts[1] \o sep \o Join(Tail(parts), sep)

RECURSIVE CountChar(_, _)
CountChar(s, c) ==
    IF s = <<>> THEN 0
    ELSE (IF Head(s) = c THEN 1 ELSE 0) + CountChar(Tail(s), c)

(***************************************************************************)
(* TreeParser._parse_line: the scan of one line.                           *)
(***************************************************************************)
RECURSIVE ScanLine(_, _, _)
ScanLine(line, pos, depth) ==
    IF pos >= Len(line) THEN [depth |-> 0, name |-> <<>>]
    ELSE IF StartsWithAt(line, pos, TREE_BRANCH)
        THEN [depth |-> depth + 1, name |-> Strip(From(line, pos + Len(TREE_BRANCH)))]
    ELSE IF StartsWithAt(line, pos, TREE_LAST)
        THEN [depth |-> depth + 1, name |-> Strip(From(line, pos + Len(TREE_LAST)))]
    ELSE IF StartsWithAt(line, pos, TREE_VERTICAL)
        THEN ScanLine(line, pos + Len(TREE_VERTICAL), depth + 1)
    ELSE IF StartsWithAt(line, pos, TREE_SPACE)
        THEN ScanLine(line, pos + Len(TREE_SPACE), depth + 1)
    ELSE IF line[pos + 1] = SP THEN ScanLine(line, pos + 1, depth)
    ELSE IF line[pos + 1] = TAB THEN ScanLine(line, pos + 1, depth + 1)
    ELSE [depth |-> 0, name |-> Strip(From(line, pos))]

parse_line(line) == ScanLine(line, 0, 0)

(***************************************************************************)
(* TreeNode and the parser's working state.  A node is referred to by its  *)
(* position in all_nodes; None is 0.                                       *)
(***************************************************************************)
None == 0

TreeNode(name, is_directory, depth) ==
    [name |-> name, is_directory |-> is_directory, depth |-> depth,
     children |-> <<>>, parent |-> None]

\* TreeParser.__init__
NewParser == [all_nodes |-> <<>>, root |-> None, parent_stack |-> <<>>]

\* a look-ahead that takes the very next line, blank or not
LookAhead_NoBlankSkip(lines, from) ==
    IF from > Len(lines) THEN -1 ELSE parse_line(lines[from]).depth

\* the look-ahead of parse: the depth of the first non-blank line of lines[from:],
\* -1 standing for next_depth = None
RECURSIVE LookAhead(_, _)
LookAhead(lines, from) ==
    IF from > Len(lines) THEN -1
    ELSE IF Strip(lines[from]) = <<>> THEN LookAhead(lines, from + 1)
    ELSE parse_line(lines[from]).depth

\* a classification that leaves the decision to the look-ahead alone
Classify_LookAheadOnly(lines, line_num, depth, name) ==
    [is_directory |-> LookAhead(lines, line_num + 2) > depth,
     name |-> IF EndsWithSlash(name) THEN RStripSlash(name) ELSE name]

\* is_directory and the stored name of a line with extracted (depth, name)
Classify(lines, line_num, depth, name) ==
    IF EndsWithSlash(name)
    THEN [is_directory |-> TRUE, name |-> RStripSlash(name)]
    ELSE [is_directory |-> LookAhead(lines, line_num + 2) > depth, name |-> name]

\* a variant of Attach that never pops the root off the stack
Attach_KeepRoot(nodes, stack, idx, depth) ==
    LET keep == IF depth = 0 THEN 1 ELSE depth
        popped == SubSeq(stack, 1, Min(Len(stack), keep))
        parent == popped[Len(popped)]
    IN [all_nodes |-> [nodes EXCEPT ![idx].parent = parent,
                                    ![parent].children = Append(@, idx)],
        parent_stack |-> Append(popped, idx)]

\* the attachment of node number idx (already appended to nodes) of computed
\* depth: pop, link to the stack top, put the node on the stack
Attach(nodes, stack, idx, depth) ==
    LET popped == SubSeq(stack, 1, Min(Len(stack), depth))
        linked == IF popped # <<>>
                  THEN LET parent == popped[Len(popped)]
                       IN [nodes EXCEPT ![idx].parent = parent,
                                        ![parent].children = Append(@, idx)]
                  ELSE nodes
        pushed == IF Len(popped) <= depth
                  THEN Append(popped, idx)
                  ELSE [popped EXCEPT ![depth + 1] = idx]
    IN [all_nodes |-> linked, parent_stack |-> pushed]

\* one iteration of the for loop of parse; line_num is 0-based as in the code
ProcessLine(st, lines, line_num) ==
    LET line == lines[line_num + 1]
        pl == parse_line(line)
    IN IF Strip(line) = <<>> THEN st
       ELSE IF pl.name = <<>> THEN st
       ELSE LET cl == Classify(lines, line_num, pl.depth, pl.name)
                node == TreeNode(cl.name, cl.is_directory, pl.depth)
                nodes == Append(st.all_nodes, node)
                idx == Len(nodes)
            IN IF line_num = 0 \/ st.root = None
               THEN [all_nodes |-> nodes, root |-> idx, parent_stack |-> <<idx>>]
               ELSE LET at == Attach(nodes, st.parent_stack, idx, pl.depth)
                    IN [all_nodes |-> at.all_nodes, root |-> st.root,
                        parent_stack |-> at.parent_stack]

\* lines = tree_text.strip().split('\n')
InputLines(text) == Split(Strip(text))

\* the whole of parse on a fresh working state: the loop run to its end
RECURSIVE ParseFrom(_, _, _)
ParseFrom(st, lines, line_num) ==
    IF line_num >= Len(lines) THEN st
    ELSE ParseFrom(ProcessLine(st, lines, line_num), lines, line_num + 1)

ParseText(text) == ParseFrom(NewParser, InputLines(text), 0)

(***************************************************************************)
(* TreeNode.get_full_path, TreeParser.get_all_paths, get_summary.          *)
(***************************************************************************)
RECURSIVE PathParts(_, _)
PathParts(nodes, n) ==
    IF n = None THEN <<>>
    ELSE Append(PathParts(nodes, nodes[n].parent), nodes[n].name)

\* a path that keeps the trailing '/' of base_path
get_full_path_NoRStrip(nodes, n, base_path) ==
    IF base_path # <<>>
    THEN base_path \o <<SLASH>> \o Join(PathParts(nodes, n), <<SLASH>>)
    ELSE Join(PathParts(nodes, n), <<SLASH>>)

get_full_path(nodes, n, base_path) ==
    IF base_path # <<>>
    THEN RStripSlash(base_path) \o <<SLASH>> \o Join(PathParts(nodes, n), <<SLASH>>)
    ELSE Join(PathParts(nodes, n), <<SLASH>>)

RECURSIVE collect_paths(_, _, _)
RECURSIVE CollectChildren(_, _, _)
collect_paths(nodes, n, base_path) ==
    <<[path |-> get_full_path(nodes, n, base_path),
       is_directory |-> nodes[n].is_directory, node |-> n]>>
        \o CollectChildren(nodes, nodes[n].children, base_path)
CollectChildren(nodes, cs, base_path) ==
    IF cs = <<>> THEN <<>>
    ELSE collect_paths(nodes, Head(cs), base_path)
            \o CollectChildren(nodes, Tail(cs), base_path)

\* entries carry the node they come from next to the (path, is_directory) pair
get_all_paths(st, base_path) ==
    IF st.root = None THEN <<>> ELSE collect_paths(st.all_nodes, st.root, base_path)

get_summary(st) ==
    LET ns == st.all_nodes
        dirs == Cardinality({i \in 1..Len(ns) : ns[i].is_directory})
        files == Cardinality({i \in 1..Len(ns) : ~ns[i].is_directory})
    IN [total |-> Len(ns), directories |-> dirs, files |-> files]

(***************************************************************************)
(* src/utils.py: get_directory_tree and _build_tree.  A directory on disk  *)
(* is its name and the set of entries below it, each entry a path of       *)
(* names relative to the directory and a directory flag.  Every directory  *)
(* drawn is readable and is a directory, and no two names of one directory *)
(* agree once lowercased, so the sort of _build_tree has no ties.          *)
(***************************************************************************)
max_depth == 3

Entry(path, is_dir) == [path |-> path, is_dir |-> is_dir]

\* a < b for strings, codepoint by codepoint as Python compares str
RECURSIVE StrLess(_, _)
StrLess(a, b) ==
    IF b = <<>> THEN FALSE
    ELSE IF a = <<>> THEN TRUE
    ELSE IF Head(a) # Head(b) THEN Head(a) < Head(b)
    ELSE StrLess(Tail(a), Tail(b))

EntryName(e) == e.path[Len(e.path)]

\* key=lambda x: (not x.is_dir(), x.name.lower())
KeyLess(e, f) ==
    \/ e.is_dir /\ ~f.is_dir
    \/ e.is_dir = f.is_dir /\ StrLess(Lower(EntryName(e)), Lower(EntryName(f)))

RECURSIVE Sorted(_)
Sorted(S) ==
    IF S = {} THEN <<>>
    ELSE LET first == CHOOSE e \in S : \A f \in S \ {e} : KeyLess(e, f)
         IN <<first>> \o Sorted(S \ {first})

\* directory.iterdir()
IterDir(entries, dir) ==
    {e \in entries : /\ Len(e.path) = Len(dir) + 1
                     /\ SubSeq(e.path, 1, Len(dir)) = dir}

RECURSIVE build_tree(_, _, _, _)
RECURSIVE BuildEntries(_, _, _, _, _)
build_tree(entries, dir, prefix, current_depth) ==
    IF current_depth >= max_depth THEN <<>>
    ELSE BuildEntries(entries, Sorted(IterDir(entries, dir)), 1, prefix, current_depth)
BuildEntries(entries, sorted, i, prefix, current_depth) ==
    IF i > Len(sorted) THEN <<>>
    ELSE LET entry == sorted[i]
             is_last == i = Len(sorted)
             connector == IF is_last THEN ConnectorLast ELSE ConnectorBranch
             extension == IF is_last THEN ExtensionSpace ELSE ExtensionVertical
             own == IF entry.is_dir
                    THEN <<prefix \o connector \o EntryName(entry) \o <<SLASH>>>>
                            \o build_tree(entries, entry.path, prefix \o extension,
                                          current_depth + 1)
                    ELSE <<prefix \o connector \o EntryName(entry)>>
         IN own \o BuildEntries(entries, sorted, i + 1, prefix, current_depth)

get_directory_tree(d) ==
    Join(<<d.name \o <<SLASH>>>> \o build_tree(d.entries, <<>>, <<>>, 0), <<NL>>)

(***************************************************************************)
(* The inputs.                                                             *)
(***************************************************************************)
\* names of generated directory entries: "a", "B"
FsNames == {<<97>>, <<66>>}

FsPaths == UNION {[1..n -> FsNames] : n \in 1..MaxFsDepth}

FsEntries == {Entry(p, b) : p \in FsPaths, b \in BOOLEAN}

\* the entries that may join the entry set E: a new path whose parent is the
\* root or a directory of E
Grow(E) ==
    {E \cup {e} : e \in {f \in FsEntries :
        /\ \A g \in E : g.path # f.path
        /\ \/ Len(f.path) = 1
           \/ Entry(SubSeq(f.path, 1, Len(f.path) - 1), TRUE) \in E}}

RECURSIVE EntrySets(_)
EntrySets(n) ==
    IF n = 0 THEN {{}}
    ELSE LET smaller == EntrySets(n - 1)
         IN smaller \cup UNION {Grow(E) : E \in smaller}

\* "project", "src", "main.py", "README.md"
NameProject == <<112, 114, 111, 106, 101, 99, 116>>
NameSrc == <<115, 114, 99>>
NameMainPy == <<109, 97, 105, 110, 46, 112, 121>>
NameReadme == <<82, 69, 65, 68, 77, 69, 46, 109, 100>>

\* the directory of scenario 1: project/ holding src/main.py and README.md
ProjectDir ==
    [name |-> NameProject,
     entries |-> {Entry(<<NameSrc>>, TRUE), Entry(<<NameSrc, NameMainPy>>, FALSE),
                  Entry(<<NameReadme>>, FALSE)}]

\* root directory name of the generated directories: "r"
FsRootName == <<114>>

DirTrees == {[name |-> FsRootName, entries |-> E] : E \in EntrySets(MaxEntries)}
                \cup {ProjectDir}

\* "app", "config", "main"
NameApp == <<97, 112, 112>>
NameConfig == <<99, 111, 110, 102, 105, 103>>
NameMain == <<109, 97, 105, 110>>

\* scenario 2: app / '    config' / '    main'
Scenario2Text ==
    Join(<<NameApp, TREE_SPACE \o NameConfig, TREE_SPACE \o NameMain>>, <<NL>>)

\* scenario 1 as the spec prints it, with the box-drawing characters
Scenario1Text ==
    Join(<<NameProject \o <<SLASH>>,
           ConnectorBranch \o NameSrc \o <<SLASH>>,
           ExtensionVertical \o ConnectorLast \o NameMainPy,
           ConnectorLast \o NameReadme>>, <<NL>>)

\* scenario 1 written with the tokens as src/const.py holds them
Scenario1CodeText ==
    Join(<<NameProject \o <<SLASH>>,
           TREE_BRANCH \o NameSrc \o <<SLASH>>,
           TREE_VERTICAL \o TREE_LAST \o NameMainPy,
           TREE_LAST \o NameReadme>>, <<NL>>)

RECURSIVE Repeat(_, _)
Repeat(tok, k) == IF k = 0 THEN <<>> ELSE tok \o Repeat(tok, k - 1)

\* names of generated lines: "a", "b/"
LineNames == {<<97>>, <<98, SLASH>>}

\* entry lines: 4-space tokens, the branch marker, a name
EntryLines ==
    {Repeat(TREE_SPACE, k) \o TREE_BRANCH \o n : k \in 0..MaxIndent, n \in LineNames}

\* lines without a marker: a name, and a name behind one 4-space token
PlainLines == LineNames \cup {TREE_SPACE \o <<97>>}

\* the empty line and a line of spaces
BlankLines == {<<>>, TREE_SPACE}

\* a marker with no name behind it
EmptyNameLines == {TREE_BRANCH}

\* lines that take the remaining branches of the scan: the vertical and last
\* tokens, a tab and a stray space, a name with two slashes
ExtraLines ==
    {TREE_VERTICAL \o TREE_LAST \o <<97>>,
     <<TAB, SP>> \o TREE_LAST \o <<98, SLASH>>,
     <<97, SLASH, SLASH>>}

LineSet == EntryLines \cup PlainLines \cup BlankLines \cup EmptyNameLines \cup ExtraLines

LineSeqs == UNION {[1..n -> LineSet] : n \in 0..MaxLines}

ScenarioTexts == {Scenario1Text, Scenario1CodeText, Scenario2Text}

\* texts around the directory slash: "/", "a/b", and "a" followed by "/"
EdgeTexts == {<<SLASH>>, <<97, SLASH, 98>>, <<97, NL, SLASH>>}

Texts == {Join(ls, <<NL>>) : ls \in LineSeqs} \cup ScenarioTexts \cup EdgeTexts

\* texts handed to a parser object that has parsed before: one that yields no
\* node, one with a single node, one with an orphan, and the two scenarios
ReuseTexts == {<<>>, TREE_BRANCH, <<97>>, <<97, NL, 98>>, Scenario1CodeText, Scenario2Text}

(***************************************************************************)
(* The state machine: one parser object, one call of parse at a time.     *)
(***************************************************************************)
VARIABLES
    tree_text,      \* the argument of parse (the rendered text once rendered); TrTRealUI.tree_text
    fs,             \* the directory handed to get_directory_tree, or NoDir
    lines,          \* parse: the local lines
    line_num,       \* parse: the loop index, 0-based
    all_nodes,      \* TreeParser.all_nodes
    root,           \* TreeParser.root
    parent_stack,   \* parse: the local parent_stack
    earlier,        \* history: node counts left by the earlier calls of parse on this object
    paths,          \* create_file_structure: the argument paths
    dry_run,        \* create_file_structure: the argument dry_run
    disk,           \* the file system: the set of existing paths with their kind
    path_idx,       \* create_file_structure: number of paths the loop has taken
    results,        \* create_file_structure: the dictionary results
    reached,        \* history: for each path taken, what the loop found and did
    parsed_root,    \* TrTRealUI.parsed_root
    target_directory, \* TrTRealUI.target_directory
    message,        \* TrTRealUI: the last message shown by a handler
    pc              \* "idle", "rendered", "loop", "done"; "create", "created"; "menu"

parserVars == <<tree_text, fs, lines, line_num, all_nodes, root, parent_stack, earlier>>

createVars == <<paths, dry_run, disk, path_idx, results, reached>>

uiVars == <<parsed_root, target_directory, message>>

vars == <<parserVars, createVars, uiVars, pc>>

NoDir == [name |-> <<>>, entries |-> {}]

NoResults == [created |-> <<>>, skipped |-> <<>>, errors |-> <<>>]

\* the variables of create_file_structure before any call
CreateIdle ==
    /\ paths = <<>>
    /\ dry_run = FALSE
    /\ disk = {}
    /\ path_idx = 0
    /\ results = NoResults
    /\ reached = <<>>

\* the variables of the terminal UI when no UI runs
UiIdle ==
    /\ parsed_root = None
    /\ target_directory = <<>>
    /\ message = ""

Init ==
    /\ tree_text = <<>>
    /\ fs = NoDir
    /\ lines = <<>>
    /\ line_num = 0
    /\ all_nodes = NewParser.all_nodes
    /\ root = NewParser.root
    /\ parent_stack = <<>>
    /\ earlier = <<>>
    /\ CreateIdle
    /\ UiIdle
    /\ pc = "idle"

\* get_directory_tree(path) on a directory d
GetDirectoryTree(d) ==
    /\ pc = "idle"
    /\ fs' = d
    /\ tree_text' = get_directory_tree(d)
    /\ pc' = "rendered"
    /\ UNCHANGED <<lines, line_num, all_nodes, root, parent_stack, earlier>>
    /\ UNCHANGED <<createVars, uiVars>>

\* a variant of ParseBegin that keeps all_nodes and root of the earlier call
ParseBegin_NoReset(t) ==
    /\ lines' = InputLines(t)
    /\ all_nodes' = all_nodes
    /\ root' = root
    /\ parent_stack' = <<>>
    /\ line_num' = 0
    /\ tree_text' = t
    /\ pc' = "loop"
    /\ UNCHANGED <<createVars, uiVars>>

\* parse(t) up to the loop: lines 54-63.  split('\n') never returns an empty
\* list, so the early return of line 55-56 is never taken and the reset of
\* all_nodes and root always happens.
ParseBegin(t) ==
    /\ lines' = InputLines(t)
    /\ all_nodes' = <<>>
    /\ root' = None
    /\ parent_stack' = <<>>
    /\ line_num' = 0
    /\ tree_text' = t
    /\ pc' = "loop"
    /\ UNCHANGED <<createVars, uiVars>>

\* parse called on a text typed or pasted by the user
ParseInput ==
    /\ pc = "idle"
    /\ \E t \in Texts : ParseBegin(t)
    /\ UNCHANGED <<fs, earlier>>

\* parse called on the text get_directory_tree returned
ParseRendered ==
    /\ pc = "rendered"
    /\ ParseBegin(tree_text)
    /\ UNCHANGED <<fs, earlier>>

\* parse called again on the same object, after an earlier call returned
ParseAgain ==
    /\ pc = "done"
    /\ Len(earlier) < MaxReuse
    /\ \E t \in ReuseTexts : ParseBegin(t)
    /\ earlier' = Append(earlier, Len(all_nodes))
    /\ fs' = NoDir

\* one iteration of the loop of parse: lines 65-120
ParseLoop ==
    /\ pc = "loop"
    /\ line_num < Len(lines)
    /\ LET st == ProcessLine([all_nodes |-> all_nodes, root |-> root,
                              parent_stack |-> parent_stack], lines, line_num)
       IN /\ all_nodes' = st.all_nodes
          /\ root' = st.root
          /\ parent_stack' = st.parent_stack
    /\ line_num' = line_num + 1
    /\ UNCHANGED <<tree_text, fs, lines, earlier, pc>>
    /\ UNCHANGED <<createVars, uiVars>>

\* return self.root: line 122
ParseReturn ==
    /\ pc = "loop"
    /\ line_num >= Len(lines)
    /\ pc' = "done"
    /\ UNCHANGED <<parserVars, createVars, uiVars>>

Next ==
    \/ \E d \in DirTrees : GetDirectoryTree(d)
    \/ ParseInput
    \/ ParseRendered
    \/ ParseAgain
    \/ ParseLoop
    \/ ParseReturn

Spec == Init /\ [][Next]_vars

\* the parser object as the query methods see it
Parser == [all_nodes |-> all_nodes, root |-> root, parent_stack |-> parent_stack]

TypeOK ==
    /\ pc \in {"idle", "rendered", "loop", "done", "create", "created", "menu"}
    /\ root \in 0..Len(all_nodes)
    /\ line_num \in 0..Len(lines)

(***************************************************************************)
(* Vocabulary of the properties.                                           *)
(***************************************************************************)
\* get_all_paths("")
Paths == get_all_paths(Parser, <<>>)

\* the lines of the input as the user wrote them
RawLines == Split(tree_text)

IsBlank(line) == Strip(line) = <<>>

\* line extraction gives the line a non-empty name
YieldsName(line) == ~IsBlank(line) /\ parse_line(line).name # <<>>

\* the positions in ls of the lines that yield a name, in order
RECURSIVE NameLinesFrom(_, _)
NameLinesFrom(ls, j) ==
    IF j > Len(ls) THEN <<>>
    ELSE (IF YieldsName(ls[j]) THEN <<j>> ELSE <<>>) \o NameLinesFrom(ls, j + 1)

NameLines(ls) == NameLinesFrom(ls, 1)

\* the name line extraction gave the line node i was created from
ExtractedName(i) == parse_line(lines[NameLines(lines)[i]]).name

HasParent(i) == all_nodes[i].parent # None

(***************************************************************************)
(* Well-formed tree text in the box-drawing tokens: the depth of an entry  *)
(* line is the number of its continuation tokens plus one, -1 when the     *)
(* line is no entry line.                                                  *)
(***************************************************************************)
BareName(n) == n # <<>> /\ Strip(n) = n /\ RStripSlash(n) # <<>>

RECURSIVE EntryDepth(_, _, _)
EntryDepth(line, pos, k) ==
    IF StartsWithAt(line, pos, ConnectorBranch) \/ StartsWithAt(line, pos, ConnectorLast)
    THEN IF BareName(From(line, pos + Len(ConnectorBranch))) THEN k + 1 ELSE -1
    ELSE IF StartsWithAt(line, pos, ExtensionVertical)
            \/ StartsWithAt(line, pos, ExtensionSpace)
    THEN EntryDepth(line, pos + Len(ExtensionSpace), k + 1)
    ELSE -1

\* depth of line j of a well-formed text: 0 for the root line
StructDepth(ls, j) == IF j = 1 THEN 0 ELSE EntryDepth(ls[j], 0, 0)

WellFormed(ls) ==
    /\ Len(ls) >= 1
    /\ BareName(ls[1])
    /\ EntryDepth(ls[1], 0, 0) = -1
    /\ \A j \in 2..Len(ls) :
        /\ StructDepth(ls, j) >= 1
        /\ StructDepth(ls, j) <= StructDepth(ls, j - 1) + 1

\* the tree scenario 1 is to give
Scenario1Nodes ==
    <<[name |-> NameProject, is_directory |-> TRUE, depth |-> 0,
       children |-> <<2, 4>>, parent |-> None],
      [name |-> NameSrc, is_directory |-> TRUE, depth |-> 1,
       children |-> <<3>>, parent |-> 1],
      [name |-> NameMainPy, is_directory |-> FALSE, depth |-> 2,
       children |-> <<>>, parent |-> 2],
      [name |-> NameReadme, is_directory |-> FALSE, depth |-> 1,
       children |-> <<>>, parent |-> 1]>>

\* C1: for every well-formed tree text, parse then get_all_paths("") gives one
\* path per line, the number of '/' in each path is the depth of its line, and
\* scenario 1 gives project/{src/{main.py}, README.md}.
C1_WellFormedPathDepth ==
    (pc = "done" /\ WellFormed(RawLines)) =>
        /\ Len(Paths) = Len(RawLines)
        /\ \A i \in 1..Len(Paths) :
            CountChar(Paths[i].path, SLASH) = StructDepth(RawLines, i)
        /\ tree_text = Scenario1Text => (all_nodes = Scenario1Nodes /\ root = 1)

(***************************************************************************)
(* The (relative path, is_directory) pairs of a directory on disk, the     *)
(* root directory included, paths relative to the root's parent.           *)
(***************************************************************************)
DiskPairs(d) ==
    {<<d.name, TRUE>>}
        \cup {<<Join(<<d.name>> \o e.path, <<SLASH>>), e.is_dir>> : e \in d.entries}

WithinDepthLimit(d) == \A e \in d.entries : Len(e.path) <= max_depth

PathPairs == {<<Paths[i].path, Paths[i].is_directory>> : i \in 1..Len(Paths)}

\* C2: rendering a directory (within the depth limit), parsing the text and
\* calling get_all_paths("") gives exactly the directory's (path, is_directory)
\* pairs, each once.
C2_RoundTrip ==
    (pc = "done" /\ fs # NoDir /\ WithinDepthLimit(fs)) =>
        /\ PathPairs = DiskPairs(fs)
        /\ Len(Paths) = Cardinality(DiskPairs(fs))

\* C3: parse returns None exactly when no line of the input is non-blank and
\* yields a non-empty name.
C3_NoneExactlyWhenNoName ==
    pc = "done" => (root = None <=> \A j \in 1..Len(RawLines) : ~YieldsName(RawLines[j]))

\* C4: a line whose name has no trailing '/' is a directory exactly when the next
\* line that yields a node is strictly deeper.
C4_DirectoryInference ==
    pc = "done" =>
        \A i \in 1..Len(all_nodes) :
            ~EndsWithSlash(ExtractedName(i)) =>
                (all_nodes[i].is_directory <=>
                    (i < Len(all_nodes) /\ all_nodes[i + 1].depth > all_nodes[i].depth))

\* the tree scenario 2 is to give
Scenario2Nodes ==
    <<[name |-> NameApp, is_directory |-> TRUE, depth |-> 0,
       children |-> <<2, 3>>, parent |-> None],
      [name |-> NameConfig, is_directory |-> FALSE, depth |-> 1,
       children |-> <<>>, parent |-> 1],
      [name |-> NameMain, is_directory |-> FALSE, depth |-> 1,
       children |-> <<>>, parent |-> 1]>>

\* C5: scenario 2 gives directory app with the files config and main at depth 1
\* as its children, in that order.
C5_Scenario2 ==
    (pc = "done" /\ tree_text = Scenario2Text) =>
        (all_nodes = Scenario2Nodes /\ root = 1)

\* C6 as stated: a name ending in '/' is a directory whatever follows, and the
\* stored name is the extracted name less its last character.
C6_OneSlashRemoved ==
    pc = "done" =>
        \A i \in 1..Len(all_nodes) :
            EndsWithSlash(ExtractedName(i)) =>
                /\ all_nodes[i].is_directory
                /\ all_nodes[i].name
                    = SubSeq(ExtractedName(i), 1, Len(ExtractedName(i)) - 1)

\* C6 amended: a name ending in '/' is a directory whatever follows, and the
\* stored name is the extracted name less all its trailing '/' characters.
C6_TrailingSlashDirectory ==
    pc = "done" =>
        \A i \in 1..Len(all_nodes) :
            EndsWithSlash(ExtractedName(i)) =>
                /\ all_nodes[i].is_directory
                /\ ~EndsWithSlash(all_nodes[i].name)
                /\ \E k \in 1..Len(ExtractedName(i)) :
                    ExtractedName(i) = all_nodes[i].name \o [j \in 1..k |-> SLASH]

\* one text held a name with a trailing '/' followed by a sibling, one followed
\* by a shallower line and one followed by nothing, the last with two slashes
C6_Witness ==
    /\ pc = "done"
    /\ Len(all_nodes) = 3
    /\ \A i \in 1..3 : EndsWithSlash(ExtractedName(i)) /\ all_nodes[i].is_directory
    /\ all_nodes[2].depth = all_nodes[1].depth
    /\ all_nodes[3].depth < all_nodes[2].depth
    /\ Len(ExtractedName(3)) = Len(all_nodes[3].name) + 2

\* the input with its blank lines taken out
RECURSIVE DropBlank(_)
DropBlank(ls) ==
    IF ls = <<>> THEN <<>>
    ELSE (IF IsBlank(Head(ls)) THEN <<>> ELSE <<Head(ls)>>) \o DropBlank(Tail(ls))

WithoutBlankLines(text) == Join(DropBlank(Split(text)), <<NL>>)

\* C7: blank lines change nothing: the parse of a text gives the nodes (names,
\* depths, flags, parents, children) and root of the parse of the text with every
\* blank line taken out.
C7_BlankLinesIgnored ==
    pc = "done" =>
        LET st == ParseText(WithoutBlankLines(tree_text))
        IN all_nodes = st.all_nodes /\ root = st.root

\* a text with a blank line between the root line and its child was parsed: the
\* root is a directory and the line after the blank line is its child
C7_Witness ==
    /\ pc = "done"
    /\ Len(RawLines) = 3
    /\ YieldsName(RawLines[1])
    /\ IsBlank(RawLines[2])
    /\ YieldsName(RawLines[3])
    /\ Len(all_nodes) = 2
    /\ all_nodes[2].parent = 1
    /\ all_nodes[1].is_directory
    /\ ~EndsWithSlash(ExtractedName(1))

\* C8: the root is the node of the first line that yields a node, it has no
\* parent and its depth is 0.
C8_RootDepthZero ==
    (pc = "done" /\ root # None) =>
        /\ root = 1
        /\ all_nodes[root].parent = None
        /\ all_nodes[root].depth = 0

\* C9: after any number of lines, a node that has a parent is one level below it.
C9_ChildOneBelowParent ==
    \A i \in 1..Len(all_nodes) :
        HasParent(i) => all_nodes[i].depth = all_nodes[all_nodes[i].parent].depth + 1

\* C10: a node that has a child is a directory.
C10_ParentsAreDirectories ==
    pc = "done" =>
        \A i \in 1..Len(all_nodes) :
            all_nodes[i].children # <<>> => all_nodes[i].is_directory

(***************************************************************************)
(* Orphans, traversal order and paths.                                     *)
(***************************************************************************)
Summary == get_summary(Parser)

\* the nodes get_all_paths lists, in the order it lists them
PathNodes == [k \in 1..Len(Paths) |-> Paths[k].node]

InPaths(i) == \E k \in 1..Len(Paths) : Paths[k].node = i

\* node i stands in some children list
IsChild(nodes, i) == \E p \in 1..Len(nodes) : \E k \in 1..Len(nodes[p].children) :
                        nodes[p].children[k] = i

\* the step appends a node for a non-first line of computed depth d while no node
\* of depth d - 1 is on the parent stack
OrphanCase ==
    /\ pc = "loop"
    /\ root # None
    /\ Len(all_nodes') = Len(all_nodes) + 1
    /\ ~\E k \in 1..Len(parent_stack) :
            all_nodes[parent_stack[k]].depth = all_nodes'[Len(all_nodes')].depth - 1

\* C11: a non-first line whose depth d has no node of depth d - 1 on the parent
\* stack gives a node with no parent that stands in no children list; such a
\* node is absent from get_all_paths and counted in get_summary.
C11_OrphanHandling ==
    /\ [][OrphanCase =>
            /\ all_nodes'[Len(all_nodes')].parent = None
            /\ ~IsChild(all_nodes', Len(all_nodes'))]_vars
    /\ [](pc = "done" =>
            /\ \A i \in 1..Len(all_nodes) :
                (i # root /\ ~HasParent(i)) => ~InPaths(i)
            /\ Summary.total = Len(all_nodes)
            /\ Summary.directories + Summary.files = Summary.total)

\* base paths handed to get_all_paths: "", "t", "/t/", "t//", "/"
BasePaths == {<<>>, <<116>>, <<SLASH, 116, SLASH>>, <<116, SLASH, SLASH>>, <<SLASH>>}

\* i is n or below n
RECURSIVE IsUnder(_, _, _)
IsUnder(nodes, i, n) ==
    IF i = n THEN TRUE
    ELSE IF nodes[i].parent = None THEN FALSE
    ELSE IsUnder(nodes, nodes[i].parent, n)

\* the path the claim gives node i under base: the prefix for the root, the
\* parent's path, '/', the name for the others
RECURSIVE ClaimedPath(_, _, _)
ClaimedPath(nodes, i, prefix) ==
    IF nodes[i].parent = None THEN prefix \o nodes[i].name
    ELSE ClaimedPath(nodes, nodes[i].parent, prefix) \o <<SLASH>> \o nodes[i].name

\* base with its trailing '/' characters taken off and one '/' put behind, or
\* nothing for the empty base
IsPrefixOf(prefix, base) ==
    IF base = <<>> THEN prefix = <<>>
    ELSE /\ prefix # <<>>
         /\ prefix[Len(prefix)] = SLASH
         /\ LET stem == SubSeq(prefix, 1, Len(prefix) - 1)
            IN /\ ~EndsWithSlash(stem)
               /\ \E k \in 0..Len(base) : base = stem \o [j \in 1..k |-> SLASH]

PreOrder(ps) ==
    LET pos(i) == CHOOSE k \in 1..Len(ps) : ps[k].node = i
        listed == {ps[k].node : k \in 1..Len(ps)}
    IN /\ \A k, m \in 1..Len(ps) : ps[k].node = ps[m].node => k = m
       /\ listed = {i \in 1..Len(all_nodes) : IsUnder(all_nodes, i, root)}
       /\ ps[1].node = root
       \* the nodes under a node follow it without a gap
       /\ \A i \in listed :
            LET under == {j \in listed : IsUnder(all_nodes, j, i)}
            IN {pos(j) : j \in under} = pos(i)..(pos(i) + Cardinality(under) - 1)
       \* children in stored order
       /\ \A i \in listed : \A a, b \in 1..Len(all_nodes[i].children) :
            a < b => pos(all_nodes[i].children[a]) < pos(all_nodes[i].children[b])
       \* a parent before its child
       /\ \A i \in listed \ {root} :
            all_nodes[i].parent \in listed /\ pos(all_nodes[i].parent) < pos(i)

\* C12: get_all_paths(base) lists the nodes reachable from the root in depth-first
\* pre-order, each with the path base (trailing '/' off) + '/' + the names from
\* the root down to the node, and with its directory flag.
C12_PreOrderPaths ==
    (pc = "done" /\ root # None) =>
        \A base \in BasePaths :
            LET ps == get_all_paths(Parser, base)
            IN /\ PreOrder(ps)
               /\ \E prefix \in {<<>>, <<116, SLASH>>, <<SLASH, 116, SLASH>>, <<SLASH>>} :
                    /\ IsPrefixOf(prefix, base)
                    /\ \A k \in 1..Len(ps) :
                        /\ ps[k].path = ClaimedPath(all_nodes, ps[k].node, prefix)
                        /\ ps[k].is_directory = all_nodes[ps[k].node].is_directory

\* a root with two children, the first with a child of its own, was listed
C12_Witness ==
    /\ pc = "done"
    /\ Len(Paths) = 4
    /\ all_nodes[root].children = <<2, 4>>
    /\ all_nodes[2].children = <<3>>
    /\ PathNodes = <<1, 2, 3, 4>>

(***************************************************************************)
(* C13: reuse of a parser object.                                          *)
(***************************************************************************)
ZeroSummary == [total |-> 0, directories |-> 0, files |-> 0]

\* C13: when a call of parse has returned, whatever the object parsed before,
\* root, all_nodes, get_all_paths and get_summary are those of a fresh parser
\* that parsed the same text; when the call returned null, get_all_paths is
\* empty and get_summary is all zeros.
C13_ReuseAsFresh ==
    pc = "done" =>
        LET fresh == ParseText(tree_text)
        IN /\ root = fresh.root
           /\ all_nodes = fresh.all_nodes
           /\ \A base \in BasePaths :
                get_all_paths(Parser, base) = get_all_paths(fresh, base)
           /\ Summary = get_summary(fresh)
           /\ root = None => (Paths = <<>> /\ Summary = ZeroSummary)

\* a call that returned null on an object whose earlier call left three nodes or more
C13_Witness ==
    /\ pc = "done"
    /\ earlier # <<>>
    /\ earlier[Len(earlier)] >= 3
    /\ root = None
    /\ Paths = <<>>
    /\ Summary = ZeroSummary

(***************************************************************************)
(* C15: bare names.                                                        *)
(***************************************************************************)
IsBareNodeName(n) == n # <<>> /\ CountChar(n, SLASH) = 0

\* the lines of ls that still have a name once markers and the directory
\* slash are removed
RECURSIVE BareNameLines(_)
BareNameLines(ls) ==
    IF ls = <<>> THEN <<>>
    ELSE (IF ~IsBlank(Head(ls)) /\ RStripSlash(parse_line(Head(ls)).name) # <<>>
          THEN <<Head(ls)>> ELSE <<>>) \o BareNameLines(Tail(ls))

\* C15: every node created by parse has a non-empty name with no '/' in it, and
\* only the lines that keep a name once markers and the directory slash are
\* removed create a node.
C15_BareNames ==
    pc = "done" =>
        /\ \A i \in 1..Len(all_nodes) : IsBareNodeName(all_nodes[i].name)
        /\ Len(all_nodes) = Len(BareNameLines(lines))

(***************************************************************************)
(* C16: non-blank lines with an empty extracted name.                      *)
(***************************************************************************)
IsEmptyNameLine(line) == ~IsBlank(line) /\ parse_line(line).name = <<>>

RECURSIVE DropEmptyName(_)
DropEmptyName(ls) ==
    IF ls = <<>> THEN <<>>
    ELSE (IF IsEmptyNameLine(Head(ls)) THEN <<>> ELSE <<Head(ls)>>)
         \o DropEmptyName(Tail(ls))

\* C16: the non-blank lines with an empty extracted name create no node and
\* change no classification: the parse gives as many nodes, with the same
\* directory flags, as the parse of the lines with those lines taken out.
C16_EmptyNameLineNeutral ==
    pc = "done" =>
        LET st == ParseFrom(NewParser, DropEmptyName(lines), 0)
        IN /\ Len(all_nodes) = Len(st.all_nodes)
           /\ \A i \in 1..Len(all_nodes) :
                all_nodes[i].is_directory = st.all_nodes[i].is_directory

(***************************************************************************)
(* C17: line extraction in the box-drawing tokens.                         *)
(***************************************************************************)
\* the extraction the property describes: markers of 4 codepoints tested
\* first, then the vertical token, the 4-space token, a stray space, a tab
RECURSIVE LineExtraction(_, _, _)
LineExtraction(line, pos, k) ==
    IF pos >= Len(line) THEN [depth |-> 0, name |-> <<>>]
    ELSE IF StartsWithAt(line, pos, ConnectorBranch) \/ StartsWithAt(line, pos, ConnectorLast)
        THEN [depth |-> k + 1, name |-> Strip(From(line, pos + 4))]
    ELSE IF StartsWithAt(line, pos, ExtensionVertical) \/ StartsWithAt(line, pos, ExtensionSpace)
        THEN LineExtraction(line, pos + 4, k + 1)
    ELSE IF line[pos + 1] = SP THEN LineExtraction(line, pos + 1, k)
    ELSE IF line[pos + 1] = TAB THEN LineExtraction(line, pos + 1, k + 1)
    ELSE [depth |-> 0, name |-> Strip(From(line, pos))]

\* a line written without the first codepoint of the tokens of const.py
IsBoxDrawingLine(line) == CountChar(line, TREE_BRANCH[1]) = 0

\* C17: _parse_line gives every line of the text written in the box-drawing
\* tokens the depth and name of the extraction with markers of 4 codepoints:
\* (k + 1, trimmed name) after k indentation tokens and a marker, depth 0 and
\* the trimmed remainder when the line has no marker.
C17_LineExtraction ==
    \A j \in 1..Len(lines) :
        IsBoxDrawingLine(lines[j]) =>
            parse_line(lines[j]) = LineExtraction(lines[j], 0, 0)

(***************************************************************************)
(* C18: what get_all_paths lists when the text has an orphan.              *)
(***************************************************************************)
IsOrphan(i) == i > 1 /\ all_nodes[i].depth = 0

\* the first node after the root created from a line of computed depth 0, or
\* Len(all_nodes) + 1 when there is none
FirstOrphan ==
    LET os == {i \in 1..Len(all_nodes) : IsOrphan(i)}
    IN IF os = {} THEN Len(all_nodes) + 1
       ELSE CHOOSE i \in os : \A j \in os : i <= j

\* the last orphan created before node i, i itself included
LatestOrphan(i) ==
    CHOOSE o \in 1..i : IsOrphan(o) /\ \A j \in (o + 1)..i : ~IsOrphan(j)

OnStack(i) == \E k \in 1..Len(parent_stack) : parent_stack[k] = i

\* what holds of the orphans whichever way the later lines are attached
ListedBeforeFirstOrphan ==
    /\ (pc \in {"loop", "done"} /\ FirstOrphan <= Len(all_nodes)) => ~OnStack(root)
    /\ (pc = "done" /\ root # None) =>
        /\ PathNodes = [k \in 1..(FirstOrphan - 1) |-> k]
        /\ \A i \in FirstOrphan..Len(all_nodes) : ~InPaths(i)
        /\ Summary.total = Len(all_nodes)

\* C18 as stated: get_all_paths lists, in line order, the nodes created before
\* the first orphan; once there is an orphan the root is off the parent stack,
\* and every later node is below the first orphan, is not listed and is counted.
C18_AllLaterUnderOrphan ==
    /\ ListedBeforeFirstOrphan
    /\ (pc = "done" /\ root # None) =>
        \A i \in (FirstOrphan + 1)..Len(all_nodes) : IsUnder(all_nodes, i, FirstOrphan)

\* C18 amended: the same, but a later node of depth 0 is a further orphan
\* with no parent, and a later node of depth 1 or more is below the latest
\* orphan before it.
C18_LaterUnderLatestOrphan ==
    /\ ListedBeforeFirstOrphan
    /\ (pc = "done" /\ root # None) =>
        \A i \in FirstOrphan..Len(all_nodes) :
            /\ IsOrphan(i) => all_nodes[i].parent = None
            /\ IsUnder(all_nodes, i, LatestOrphan(i))

\* the root, an orphan, and a depth-1 line attached under the orphan
C18_Witness ==
    /\ pc = "done"
    /\ Len(all_nodes) = 3
    /\ FirstOrphan = 2
    /\ all_nodes[3].depth = 1
    /\ all_nodes[3].parent = 2
    /\ PathNodes = <<1>>
    /\ Summary.total = 3

(***************************************************************************)
(* utils.create_file_structure.  A path of the file system is the sequence *)
(* of its components, as pathlib.Path reads the string: a leading "/"      *)
(* is the component <<SLASH>>, empty components are dropped.  The disk is  *)
(* a set of entries [path, is_directory, locked]; a locked directory       *)
(* cannot be searched, so nothing below it can be examined.                *)
(***************************************************************************)
RECURSIVE PathComponents(_, _, _)
PathComponents(s, cur, acc) ==
    IF s = <<>> THEN (IF cur = <<>> THEN acc ELSE Append(acc, cur))
    ELSE IF Head(s) = SLASH
        THEN PathComponents(Tail(s), <<>>, IF cur = <<>> THEN acc ELSE Append(acc, cur))
    ELSE PathComponents(Tail(s), Append(cur, Head(s)), acc)

\* Path(path)
PurePath(s) ==
    IF s # <<>> /\ Head(s) = SLASH THEN PathComponents(s, <<>>, <<<<SLASH>>>>)
    ELSE PathComponents(s, <<>>, <<>>)

DiskEntry(p, is_directory, locked) ==
    [path |-> p, is_directory |-> is_directory, locked |-> locked]

\* the proper ancestors of p
Ancestors(p) == {SubSeq(p, 1, k) : k \in 1..(Len(p) - 1)}

\* the path obtained by Path.parent
ParentPath(p) == IF Len(p) <= 1 THEN p ELSE SubSeq(p, 1, Len(p) - 1)

\* the current directory and "/" are always there
OnDisk(d, p) == p = <<>> \/ p = <<<<SLASH>>>> \/ \E e \in d : e.path = p

\* os.stat fails with EACCES: an ancestor cannot be searched
StatDenied(d, p) ==
    \E a \in Ancestors(p) : \E e \in d : e.path = a /\ e.is_directory /\ e.locked

\* an ancestor is a file: os.stat fails with ENOTDIR, os.mkdir too
UnderFile(d, p) ==
    \E a \in Ancestors(p) : \E e \in d : e.path = a /\ ~e.is_directory

\* a variant of path_exists that finds nothing
path_exists_Never(d, p) == FALSE

\* path_obj.exists(), when os.stat is not denied
path_exists(d, p) == OnDisk(d, p) /\ ~UnderFile(d, p)

\* Path.mkdir(parents=True, exist_ok=True)
mkdir_parents(d, p) ==
    d \cup {DiskEntry(a, TRUE, FALSE) : a \in {b \in Ancestors(p) \cup {p} : ~OnDisk(d, b)}}

\* Path.touch()
touch(d, p) == IF OnDisk(d, p) THEN d ELSE d \cup {DiskEntry(p, FALSE, FALSE)}

Faults == {"none", "PermissionError", "OSError", "Exception"}

ErrorReason(fault) ==
    IF fault = "PermissionError" THEN "Permission denied"
    ELSE IF fault = "OSError" THEN "OSError"
    ELSE "Unexpected error"

\* one iteration of the loop of create_file_structure on entry = <<path, is_directory>>.
\* fault is what the file system answers to the creation, partial whether the
\* missing parents were made before the fault.
CreateOne(d, res, entry, dry, fault, partial) ==
    LET path == entry[1]
        is_directory == entry[2]
        path_obj == PurePath(path)
        failed(reason, dd) ==
            [disk |-> dd, results |-> [res EXCEPT !.errors = Append(@, <<path, reason>>)]]
        made(dd) ==
            [disk |-> dd, results |-> [res EXCEPT !.created = Append(@, path)]]
    IN IF StatDenied(d, path_obj) THEN failed("Permission denied", d)
       ELSE IF path_exists(d, path_obj)
       THEN [disk |-> d,
             results |-> [res EXCEPT !.skipped = Append(@, <<path, "Already exists">>)]]
       ELSE IF dry THEN made(d)
       ELSE IF UnderFile(d, path_obj) THEN failed("OSError", d)
       ELSE IF fault # "none"
       THEN failed(ErrorReason(fault),
                   IF partial THEN mkdir_parents(d, ParentPath(path_obj)) ELSE d)
       ELSE IF is_directory THEN made(mkdir_parents(d, path_obj))
       ELSE made(touch(mkdir_parents(d, ParentPath(path_obj)), path_obj))

\* the whole of create_file_structure(ps, dry) from entry k on, every creation
\* meeting the same answer of the file system
RECURSIVE create_file_structure(_, _, _, _, _, _)
create_file_structure(d, res, ps, k, dry, fault) ==
    IF k > Len(ps) THEN [disk |-> d, results |-> res]
    ELSE LET one == CreateOne(d, res, ps[k], dry, fault, FALSE)
         IN create_file_structure(one.disk, one.results, ps, k + 1, dry, fault)

(***************************************************************************)
(* create_file_structure step by step, on small lists and disks.           *)
(***************************************************************************)
NameT == <<116>>
NameA == <<97>>
NameB == <<98>>
NameC == <<99>>

\* "t/a" a directory, "t/a/b" and "t/c" files, "t/a" asked for as a file
CreateEntries ==
    {<<NameT \o <<SLASH>> \o NameA, TRUE>>,
     <<NameT \o <<SLASH>> \o NameA \o <<SLASH>> \o NameB, FALSE>>,
     <<NameT \o <<SLASH>> \o NameC, FALSE>>,
     <<NameT \o <<SLASH>> \o NameA, FALSE>>}

PathLists == UNION {[1..n -> CreateEntries] : n \in 0..MaxPaths}

\* nothing; the target; the target with a/; with a as a file; with c; with
\* a/ locked and b in it
Disks ==
    {{},
     {DiskEntry(<<NameT>>, TRUE, FALSE)},
     {DiskEntry(<<NameT>>, TRUE, FALSE), DiskEntry(<<NameT, NameA>>, TRUE, FALSE)},
     {DiskEntry(<<NameT>>, TRUE, FALSE), DiskEntry(<<NameT, NameA>>, FALSE, FALSE)},
     {DiskEntry(<<NameT>>, TRUE, FALSE), DiskEntry(<<NameT, NameC>>, FALSE, FALSE)},
     {DiskEntry(<<NameT>>, TRUE, FALSE), DiskEntry(<<NameT, NameA>>, TRUE, TRUE),
      DiskEntry(<<NameT, NameA, NameB>>, FALSE, FALSE)}}

ResultLists == {"created", "skipped", "errors"}

\* the path an element of a result list records
RecordedPath(l, x) == IF l = "created" THEN x ELSE x[1]

InitCreate ==
    /\ tree_text = <<>>
    /\ fs = NoDir
    /\ lines = <<>>
    /\ line_num = 0
    /\ all_nodes = NewParser.all_nodes
    /\ root = NewParser.root
    /\ parent_stack = <<>>
    /\ earlier = <<>>
    /\ UiIdle
    /\ paths \in PathLists
    /\ dry_run \in BOOLEAN
    /\ disk \in Disks
    /\ path_idx = 0
    /\ results = NoResults
    /\ reached = <<>>
    /\ pc = "create"

\* one iteration of `for path, is_directory in paths`: utils.py lines 27-51
CreateStep ==
    /\ pc = "create"
    /\ path_idx < Len(paths)
    /\ \E fault \in Faults, partial \in BOOLEAN :
        LET entry == paths[path_idx + 1]
            one == CreateOne(disk, results, entry, dry_run, fault, partial)
        IN /\ disk' = one.disk
           /\ results' = one.results
           /\ reached' = Append(reached,
                [path |-> entry[1],
                 existed |-> OnDisk(disk, PurePath(entry[1])),
                 denied |-> StatDenied(disk, PurePath(entry[1])),
                 touched |-> one.disk # disk,
                 into |-> {l \in ResultLists :
                            /\ Len(one.results[l]) = Len(results[l]) + 1
                            /\ RecordedPath(l, one.results[l][Len(one.results[l])]) = entry[1]}])
    /\ path_idx' = path_idx + 1
    /\ UNCHANGED <<paths, dry_run, pc>>
    /\ UNCHANGED <<parserVars, uiVars>>

\* return results: utils.py line 53
CreateReturn ==
    /\ pc = "create"
    /\ path_idx >= Len(paths)
    /\ pc' = "created"
    /\ UNCHANGED <<parserVars, createVars, uiVars>>

NextCreate == CreateStep \/ CreateReturn

SpecCreate == InitCreate /\ [][NextCreate]_vars

\* what holds of every call whatever the paths found
EveryPathRecordedOnce ==
    /\ Len(reached) = path_idx
    /\ Len(results.created) + Len(results.skipped) + Len(results.errors) = path_idx
    /\ \A k \in 1..path_idx :
        /\ reached[k].path = paths[k][1]
        /\ Cardinality(reached[k].into) = 1
    /\ pc = "created" => path_idx = Len(paths)

\* C14 as stated: every path of the list is taken in list order and recorded in
\* exactly one of created, skipped, errors; the call returns only when all are
\* taken; a path that was there when it was reached is in skipped and the disk
\* is as it was.
C14_ExistingAlwaysSkipped ==
    /\ EveryPathRecordedOnce
    /\ \A k \in 1..Len(reached) :
        reached[k].existed => (reached[k].into = {"skipped"} /\ ~reached[k].touched)

\* C14 amended: the same, for the paths whose existence could be tested; a path
\* below a directory that cannot be searched is in errors, there or not, and the
\* disk is as it was.
C14_ExaminableExistingSkipped ==
    /\ EveryPathRecordedOnce
    /\ \A k \in 1..Len(reached) :
        /\ (reached[k].existed /\ ~reached[k].denied) =>
                (reached[k].into = {"skipped"} /\ ~reached[k].touched)
        /\ reached[k].denied => (reached[k].into = {"errors"} /\ ~reached[k].touched)

\* a failure on the first path, then a path that was there and is skipped
C14_Witness ==
    /\ pc = "created"
    /\ Len(paths) = 2
    /\ reached[1].into = {"errors"}
    /\ reached[2].existed
    /\ reached[2].into = {"skipped"}
    /\ Len(results.errors) = 1
    /\ Len(results.skipped) = 1

(***************************************************************************)
(* ui.TrTRealUI: the menu handlers, each taken as one step.  The messages  *)
(* are shortened to their fixed words.                                     *)
(***************************************************************************)
HASH == 35

\* the lines of ls whose strip does not start with '#'
RECURSIVE DropComments(_)
DropComments(ls) ==
    IF ls = <<>> THEN <<>>
    ELSE (IF StartsWithAt(Strip(Head(ls)), 0, <<HASH>>) THEN <<>> ELSE <<Head(ls)>>)
         \o DropComments(Tail(ls))

\* _edit_tree_external, lines 347-349: what becomes tree_text
EditFilter(content) == Strip(Join(DropComments(Split(content)), <<NL>>))

\* utils.expand_path on an absolute or root-relative path
expand_path(path) ==
    LET p == PurePath(path)
        names == IF p # <<>> /\ p[1] = <<SLASH>> THEN Tail(p) ELSE p
    IN <<SLASH>> \o Join(names, <<SLASH>>)

\* os.access(p, os.W_OK)
Writable(d, p) == ~\E e \in d : e.path = p /\ e.locked

\* utils.validate_target_directory, first component of the result
validate_target_directory(d, path) ==
    LET path_obj == PurePath(path)
    IN IF path = <<>> THEN FALSE
       ELSE IF ~path_exists(d, path_obj)
       THEN path_exists(d, ParentPath(path_obj)) /\ Writable(d, ParentPath(path_obj))
       ELSE /\ \A e \in d : e.path = path_obj => e.is_directory
            /\ Writable(d, path_obj)

NameH == <<104>>

\* os.path.expanduser("~/")
Home == <<SLASH>> \o NameH \o <<SLASH>>

\* what the clipboard holds: blanks only, "a", "a" with the child "b"
ClipContents ==
    {<<SP, NL>>, NameA, NameA \o <<NL>> \o TREE_LAST \o NameB}

\* what the editor leaves in the file: a comment only, "b/" after a comment
EditorContents ==
    {<<HASH, SP, 99, NL>>, <<HASH, SP, 99, NL>> \o NameB \o <<SLASH, NL>>}

\* what is typed at the target prompt: nothing, "/t/", "/x/y"
TargetInputs ==
    {<<>>, <<SLASH>> \o NameT \o <<SLASH>>, <<SLASH, 120, SLASH, 121>>}

UiDisk ==
    {DiskEntry(<<<<SLASH>>, NameH>>, TRUE, FALSE), DiskEntry(<<<<SLASH>>, NameT>>, TRUE, FALSE)}

InitUI ==
    /\ tree_text = <<>>
    /\ fs = NoDir
    /\ lines = <<>>
    /\ line_num = 0
    /\ all_nodes = NewParser.all_nodes
    /\ root = NewParser.root
    /\ parent_stack = <<>>
    /\ earlier = <<>>
    /\ paths = <<>>
    /\ dry_run = FALSE
    /\ disk = UiDisk
    /\ path_idx = 0
    /\ results = NoResults
    /\ reached = <<>>
    /\ parsed_root = None
    /\ target_directory = Home
    /\ message = ""
    /\ pc = "menu"

\* _parse_tree: self.parsed_root = self.parser.parse(t), the whole call
parse_tree(t) ==
    LET st == ParseText(t)
    IN /\ lines' = InputLines(t)
       /\ line_num' = Len(InputLines(t))
       /\ all_nodes' = st.all_nodes
       /\ root' = st.root
       /\ parent_stack' = st.parent_stack
       /\ parsed_root' = st.root

ParserUnchanged == UNCHANGED <<lines, line_num, all_nodes, root, parent_stack>>

\* _paste_from_clipboard
PasteFromClipboard(clipboard_content) ==
    /\ pc = "menu"
    /\ IF Strip(clipboard_content) = <<>>
       THEN /\ message' = "Clipboard is empty"
            /\ UNCHANGED <<tree_text, parsed_root>>
            /\ ParserUnchanged
       ELSE /\ tree_text' = Strip(clipboard_content)
            /\ parse_tree(Strip(clipboard_content))
            /\ message' = IF ParseText(Strip(clipboard_content)).root # None
                          THEN "Pasted" ELSE "Pasted content but failed to parse"
    /\ UNCHANGED <<fs, earlier, target_directory, pc>>
    /\ UNCHANGED createVars

\* _edit_tree_external; ok is whether the editor ran and the file was read
EditTreeExternal(content, ok) ==
    /\ pc = "menu"
    /\ IF ~ok
       THEN /\ message' = "Editor error"
            /\ UNCHANGED <<tree_text, parsed_root>>
            /\ ParserUnchanged
       ELSE /\ tree_text' = EditFilter(content)
            /\ IF EditFilter(content) # <<>>
               THEN /\ parse_tree(EditFilter(content))
                    /\ message' = IF ParseText(EditFilter(content)).root # None
                                  THEN "Loaded" ELSE "Could not parse tree structure"
               ELSE /\ UNCHANGED <<parsed_root, message>>
                    /\ ParserUnchanged
    /\ UNCHANGED <<fs, earlier, target_directory, pc>>
    /\ UNCHANGED createVars

\* _set_target
SetTarget(input) ==
    /\ pc = "menu"
    /\ LET path == Strip(input)
       IN IF path = <<>> THEN UNCHANGED <<target_directory, message>>
          ELSE IF validate_target_directory(disk, expand_path(path))
          THEN /\ target_directory' = expand_path(path)
               /\ message' = "Target set"
          ELSE /\ message' = "Target not valid"
               /\ UNCHANGED target_directory
    /\ UNCHANGED <<parserVars, createVars, parsed_root, pc>>

\* _preview
Preview ==
    /\ pc = "menu"
    /\ IF tree_text = <<>>
       THEN /\ message' = "No tree input"
            /\ UNCHANGED parsed_root
            /\ ParserUnchanged
       ELSE /\ parse_tree(tree_text)
            /\ message' = IF ParseText(tree_text).root # None
                          THEN "Preview ready" ELSE "Failed to parse tree structure"
    /\ UNCHANGED <<tree_text, fs, earlier, target_directory, pc>>
    /\ UNCHANGED createVars

\* the (path, is_directory) tuples of a list of get_all_paths
PathTuples(ps) == [k \in 1..Len(ps) |-> <<ps[k].path, ps[k].is_directory>>]

\* _create_structure; yes is the answer to the confirmation, fault what the
\* file system answers to the creations
CreateStructure(yes, fault) ==
    /\ pc = "menu"
    /\ IF parsed_root = None
       THEN /\ message' = "No tree parsed"
            /\ UNCHANGED <<paths, disk, results>>
       ELSE IF ~yes
       THEN /\ message' = "Operation cancelled"
            /\ UNCHANGED <<paths, disk, results>>
       ELSE LET ps == PathTuples(get_all_paths(Parser, target_directory))
                run == create_file_structure(disk, NoResults, ps, 1, FALSE, fault)
            IN /\ paths' = ps
               /\ disk' = run.disk
               /\ results' = run.results
               /\ message' = IF Len(run.results.errors) = 0
                             THEN "Created" ELSE "Created with errors"
    /\ UNCHANGED <<parserVars, parsed_root, target_directory, dry_run, path_idx, reached, pc>>

\* _clear_input
ClearInput ==
    /\ pc = "menu"
    /\ tree_text' = <<>>
    /\ parsed_root' = None
    /\ message' = "Input cleared"
    /\ ParserUnchanged
    /\ UNCHANGED <<fs, earlier, target_directory, pc>>
    /\ UNCHANGED createVars

NextUI ==
    \/ \E c \in ClipContents : PasteFromClipboard(c)
    \/ \E c \in EditorContents, ok \in BOOLEAN : EditTreeExternal(c, ok)
    \/ \E t \in TargetInputs : SetTarget(t)
    \/ Preview
    \/ \E yes \in BOOLEAN, fault \in {"none", "PermissionError"} : CreateStructure(yes, fault)
    \/ ClearInput

SpecUI == InitUI /\ [][NextUI]_vars

\* C19: in the terminal UI a non-null parsed_root is always the parse result of
\* the current tree_text; Create Structure refuses with "No tree parsed" when
\* tree_text is empty, and what it hands to create_file_structure is
\* get_all_paths of the parse of the current tree_text.
C19_ParsedRootIsCurrent ==
    /\ [](parsed_root # None =>
            /\ parsed_root = ParseText(tree_text).root
            /\ all_nodes = ParseText(tree_text).all_nodes)
    /\ [][(\E yes \in BOOLEAN, fault \in {"none", "PermissionError"} :
                CreateStructure(yes, fault)) =>
            /\ tree_text = <<>> => message' = "No tree parsed"
            /\ message' \in {"Created", "Created with errors"} =>
                    paths' = PathTuples(get_all_paths(ParseText(tree_text),
                                                    target_directory))]_vars

====
